---- MODULE Spec2Model ----
\* Model of src/src/pipx/interpreter.py: resolution of the Python interpreter
\* that pipx uses, either for an explicit request (find_python_interpreter)
\* or as the module-level default (DEFAULT_PYTHON).
\*
\* Python strings are TLA+ strings.  An Optional[str] is None (the empty
\* tuple) or Some(s) (the one-element tuple holding s).  The filesystem, the
\* command search path and the behaviour of spawned processes are the
\* environment: the filesystem is a variable, the outcome of a spawn is
\* chosen when the spawn happens.
EXTENDS Integers, Sequences, FiniteSets, TLC

\* ---------------------------------------------------------------- bounds
\* Number of files another process may delete while the program runs.
MaxRemovals == 1

\* ------------------------------------------------------- Optional values
None == <<>>
Some(s) == <<s>>
Val(o) == o[1]
\* Python truthiness of an Optional[str]: None and "" are falsy.
Falsy(o) == o = None \/ o = Some("")

\* -------------------------------------------------------- str operations
\* s.startswith(prefix)
startswith(s, prefix) ==
    Len(s) >= Len(prefix) /\ SubSeq(s, 1, Len(prefix)) = prefix

\* sub in s
Contains(sub, s) ==
    \E i \in 1..(Len(s) - Len(sub) + 1) : SubSeq(s, i, i + Len(sub) - 1) = sub

\* s.lstrip(chars): drops every leading character that occurs in chars.
RECURSIVE lstrip(_, _)
lstrip(s, chars) ==
    IF s # "" /\ Contains(SubSeq(s, 1, 1), chars)
    THEN lstrip(Tail(s), chars)
    ELSE s

RECURSIVE rstrip(_, _)
rstrip(s, chars) ==
    IF s # "" /\ Contains(SubSeq(s, Len(s), Len(s)), chars)
    THEN rstrip(SubSeq(s, 1, Len(s) - 1), chars)
    ELSE s

Whitespace == " \n\t\r"

\* s.strip()
strip(s) == rstrip(lstrip(s, Whitespace), Whitespace)

\* ------------------------------------------------------------ filesystem
\* Kinds of a directory entry: an executable regular file, a regular file
\* without the execute bit, a directory, a symbolic link, or no entry.
Kinds == {"file", "data", "dir", "link", "none"}

Paths == {"/b/py", "/b/python3", "/o/python3", "/WindowsApps/python",
          "/o/data", "/o"}

\* Entries another process may delete.
Removable == {"/b/py", "/b/python3", "/o/python3", "/WindowsApps/python"}

\* Target of the only symbolic link the layouts contain.
linkto(p) == "/o/python3"

\* The directories of the command search path, in order.
PathDirs == <<"/WindowsApps", "/b">>

\* The working directory of the process.
Cwd == "/o"

\* The filesystems the program may start in.
Layouts ==
    { f \in [Paths -> Kinds] :
        /\ f["/b/py"] \in {"file", "none"}
        /\ f["/b/python3"] \in {"file", "link", "none"}
        /\ f["/o/python3"] \in {"file", "none"}
        /\ f["/WindowsApps/python"] \in {"file", "none"}
        /\ f["/o/data"] = "data"
        /\ f["/o"] = "dir" }

\* The directory /l is a symbolic link to /o: a path below /l names the
\* entry of the same name below /o.
DirNorm(p) ==
    IF startswith(p, "/l/") THEN "/o/" \o SubSeq(p, 4, Len(p)) ELSE p

\* lstat: the kind of the entry p names, the last component not followed.
LKind(p, f) ==
    LET q == DirNorm(p) IN IF q \in DOMAIN f THEN f[q] ELSE "none"

\* os.path.islink(p)
islink(p, f) == LKind(p, f) = "link"

\* os.path.realpath(p, strict=True): Some(canonical path), or None where
\* Python raises FileNotFoundError.  realpath("") is the working directory.
realpath(p, f) ==
    IF p = "" THEN Some(Cwd)
    ELSE LET q == DirNorm(p)
             r == IF LKind(q, f) = "link" THEN linkto(q) ELSE q
         IN IF LKind(r, f) = "none" THEN None ELSE Some(r)

\* stat: the kind of the entry p names, symbolic links followed.
SKind(p, f) ==
    IF p = "" \/ realpath(p, f) = None THEN "none"
    ELSE LKind(Val(realpath(p, f)), f)

\* shutil.which's _access_check: exists, executable, not a directory.
access_check(p, f) == SKind(p, f) = "file"

RECURSIVE which_in(_, _, _)
which_in(dirs, cmd, f) ==
    IF dirs = <<>> THEN None
    ELSE IF access_check(Head(dirs) \o "/" \o cmd, f)
         THEN Some(Head(dirs) \o "/" \o cmd)
         ELSE which_in(Tail(dirs), cmd, f)

\* shutil.which(cmd): a command with a directory part is checked as it is,
\* any other is looked up in the directories of the search path.
which(cmd, f) ==
    IF Contains("/", cmd)
    THEN IF access_check(cmd, f) THEN Some(cmd) ELSE None
    ELSE which_in(PathDirs, cmd, f)

\* ------------------------------------------------------------- processes
\* What subprocess.run can end in: the spawn raises FileNotFoundError or
\* another OSError (permission denied, exec format error), or the process
\* runs and exits with a code and its captured standard output.
SpawnError(k) == [kind |-> k, code |-> 0, stdout |-> ""]
Exited(c, out) == [kind |-> "exit", code |-> c, stdout |-> out]

\* Standard outputs of an exiting `-c "import sys; print(sys.executable)"`.
SelfReports == {"", " \n", "/o/python3\n", "/b/python3\n", "/l/python3\n",
                "/o/data\n", "/o\n", "/gone\n"}

\* Standard outputs of an exiting `-V`.
VersionReports == {"", " \r\n", "Python 3.11.6\n"}

RunOutcomes(exe, outs, f) ==
    IF SKind(exe, f) = "none" THEN {SpawnError("FileNotFoundError")}
    ELSE IF SKind(exe, f) # "file" THEN {SpawnError("OSError")}
    ELSE {SpawnError("OSError")}
         \cup {Exited(1, "")}
         \cup {Exited(0, out) : out \in outs}

SelfReportScript == "import sys; print(sys.executable)"

\* ---------------------------------------------------------------- inputs
Versions == {"", "3", "python", "python3", "pythonn3"}
EnvValues == {None, Some(""), Some("python3"), Some("/bad/path")}
SysExecutables == {"/o/python3", "/b/python3"}

\* ----------------------------------------------------------------- state
VARIABLES
    fs,                 \* the filesystem: Paths -> Kinds
    removed,            \* number of entries deleted by other processes
    pc,                 \* position of the program
    env_default_python, \* os.environ.get("PIPX_DEFAULT_PYTHON")
    WINDOWS,            \* pipx.constants.WINDOWS
    venv_importable,    \* whether `import venv` succeeds
    sys_executable,     \* sys.executable of the running interpreter
    DEFAULT_PYTHON,     \* the module-level default, None until computed
    python,             \* local of _find_default_windows_python
    python_version,     \* argument of find_python_interpreter
    py,                 \* local of find_py_launcher_python
    py_executable,      \* local of find_python_interpreter
    path_python,        \* local of find_python_interpreter
    log,                \* search-path lookups and spawns, in order
    warnings,           \* number of logging.warn calls
    outcome,            \* how the running operation ended
    err_source,         \* source of the InterpreterResolutionError raised
    err_message,        \* message of the PipxError raised
    retval              \* value find_python_interpreter returned

vars == <<fs, removed, pc, env_default_python, WINDOWS, venv_importable,
          sys_executable, DEFAULT_PYTHON, python, python_version, py,
          py_executable, path_python, log, warnings, outcome, err_source,
          err_message, retval>>

envvars == <<env_default_python, WINDOWS, venv_importable, sys_executable>>
loadvars == <<DEFAULT_PYTHON, python>>
callvars == <<python_version, py, py_executable, path_python, warnings,
              err_source, retval>>
localvars == <<py, py_executable, path_python>>

\* Entries of the log: a search-path lookup with what it found ("" for
\* nothing), a spawn with how it ended.
Lookup(cmd, found) ==
    [op |-> "which", argv |-> <<cmd>>, kind |-> "which", code |-> 0,
     stdout |-> IF found = None THEN "" ELSE Val(found)]
Spawn(argv, r) ==
    [op |-> "run", argv |-> argv, kind |-> r.kind, code |-> r.code,
     stdout |-> r.stdout]

\* ------------------------------------------------------------ exceptions
\* InterpreterResolutionError.__init__: the message built from the source
\* and the version (without the backquotes of the original text, which a
\* TLA+ string cannot hold).
ResolutionMessage(source, version) ==
    LET potentially_path == Contains("/", version)
        potentially_pylauncher ==
            ~Contains("python", version) /\ ~potentially_path
    IN "No executable for the provided Python version '" \o version
       \o "' found in " \o source
       \o ". Please make sure the provided version is "
       \o (IF source = "py launcher"
           THEN "listed when running py --list." ELSE "")
       \o (IF source = "PATH"
           THEN "on your PATH or the file path is valid. "
                \o (IF potentially_path
                    THEN "The provided version looks like a path, but no executable was found there."
                    ELSE "")
                \o (IF potentially_pylauncher
                    THEN "The provided version looks like a version for Python Launcher, but py was not found on PATH."
                    ELSE "")
           ELSE "")

\* raise InterpreterResolutionError(source=..., version=python_version)
RaiseResolutionError(source) ==
    /\ pc' = "done"
    /\ outcome' = "InterpreterResolutionError"
    /\ err_source' = source
    /\ err_message' = ResolutionMessage(source, python_version)

\* An exception of subprocess.run or os.path.realpath that no handler
\* catches leaves the operation as it is.
RaiseUncaught(kind) ==
    /\ pc' = "done"
    /\ outcome' = kind
    /\ UNCHANGED <<err_source, err_message>>

\* raise PipxError(message)
RaisePipxError(message) ==
    /\ pc' = "done"
    /\ outcome' = "PipxError"
    /\ err_message' = message
    /\ UNCHANGED err_source

\* ------------------------------------------------ find_py_launcher_python
\* The version the launcher is asked for.
LauncherSemver(version) ==
    IF startswith(version, "python") THEN lstrip(version, "python")
    ELSE version

\* Whether the warning about the removed prefix is logged.
LauncherWarns(version) == startswith(version, "python")

\* The command line of the launcher.
LauncherArgv(launcher, version) ==
    <<launcher, "-" \o LauncherSemver(version), "-c", SelfReportScript>>

\* `if py and python_version`: python_version is an Optional[str].
LauncherIsRun(launcher, version) == ~Falsy(launcher) /\ ~Falsy(version)

\* ------------------------------------------------ find_python_interpreter
\* The exceptions of subprocess.run that the two handlers catch.
Caught(r) ==
    \/ r.kind = "FileNotFoundError"
    \/ r.kind = "exit" /\ r.code # 0

\* Canonical with the test for a symbolic link lost: always dereferences.
Canonical_deref(p, f) == realpath(p, f)

\* Canonical with the canonicalization lost: the path as it is.
Canonical_asis(p, f) == Some(p)

\* `realpath(p, strict=True) if not islink(p) else p`
Canonical(p, f) == IF ~islink(p, f) THEN realpath(p, f) ELSE Some(p)

\* A call of find_python_interpreter with some version string.
Call ==
    /\ pc = "loaded"
    /\ \E v \in Versions : python_version' = v
    /\ pc' = "launcher"
    /\ outcome' = "none"
    /\ log' = <<>>
    /\ UNCHANGED <<fs, removed, envvars, loadvars, localvars, warnings,
                   err_source, err_message, retval>>

\* find_py_launcher_python up to its spawn: py = shutil.which("py"), the
\* prefix removed from the version.  Without a launcher, or with an empty
\* version, py is what it returns.
LauncherWhich ==
    /\ pc = "launcher"
    /\ py' = which("py", fs)
    /\ log' = Append(log, Lookup("py", py'))
    /\ IF LauncherIsRun(py', Some(python_version))
       THEN /\ warnings' = warnings
                           + (IF LauncherWarns(python_version) THEN 1 ELSE 0)
            /\ pc' = "launcher_run"
            /\ UNCHANGED py_executable
       ELSE /\ py_executable' = py'
            /\ pc' = IF Falsy(py') THEN "path_which" ELSE "final"
            /\ UNCHANGED warnings
    /\ UNCHANGED <<fs, removed, envvars, loadvars, python_version,
                   path_python, outcome, err_source, err_message, retval>>

\* The spawn of the launcher and the handler of find_python_interpreter
\* around it.
LauncherRun ==
    /\ pc = "launcher_run"
    /\ \E r \in RunOutcomes(Val(py), SelfReports, fs) :
         /\ log' = Append(log, Spawn(LauncherArgv(Val(py), python_version), r))
         /\ IF r.kind = "exit" /\ r.code = 0
            THEN /\ py_executable' = Some(strip(r.stdout))
                 /\ pc' = IF Falsy(py_executable') THEN "path_which"
                                                   ELSE "final"
                 /\ UNCHANGED <<outcome, err_source, err_message>>
            ELSE /\ IF Caught(r) THEN RaiseResolutionError("py launcher")
                                 ELSE RaiseUncaught(r.kind)
                 /\ UNCHANGED py_executable
    /\ UNCHANGED <<fs, removed, envvars, loadvars, python_version, py,
                   path_python, warnings, retval>>

\* `if not py_executable`: path_python = shutil.which(python_version).
PathWhich ==
    /\ pc = "path_which"
    /\ path_python' = which(python_version, fs)
    /\ log' = Append(log, Lookup(python_version, path_python'))
    /\ IF Falsy(path_python')
       THEN RaiseResolutionError("PATH")
       ELSE /\ pc' = "path_canon"
            /\ UNCHANGED <<outcome, err_source, err_message>>
    /\ UNCHANGED <<fs, removed, envvars, loadvars, python_version, py,
                   py_executable, warnings, retval>>

\* The canonicalization of the candidate, outside any handler.
PathCanon ==
    /\ pc = "path_canon"
    /\ IF Canonical(Val(path_python), fs) = None
       THEN /\ RaiseUncaught("FileNotFoundError")
            /\ UNCHANGED path_python
       ELSE /\ path_python' = Canonical(Val(path_python), fs)
            /\ pc' = "path_run"
            /\ UNCHANGED <<outcome, err_source, err_message>>
    /\ UNCHANGED <<fs, removed, envvars, loadvars, python_version, py,
                   py_executable, log, warnings, retval>>

\* The spawn of the candidate and its handler.
PathRun ==
    /\ pc = "path_run"
    /\ \E r \in RunOutcomes(Val(path_python), SelfReports, fs) :
         /\ log' = Append(log, Spawn(<<Val(path_python), "-c",
                                       SelfReportScript>>, r))
         /\ IF r.kind = "exit" /\ r.code = 0
            THEN /\ py_executable' = Some(strip(r.stdout))
                 /\ pc' = "final"
                 /\ UNCHANGED <<outcome, err_source, err_message>>
            ELSE /\ IF Caught(r) THEN RaiseResolutionError("PATH")
                                 ELSE RaiseUncaught(r.kind)
                 /\ UNCHANGED py_executable
    /\ UNCHANGED <<fs, removed, envvars, loadvars, python_version, py,
                   path_python, warnings, retval>>

\* The return statement: the canonicalization of py_executable, outside any
\* handler.
FinalCanon ==
    /\ pc = "final"
    /\ IF Canonical(Val(py_executable), fs) = None
       THEN /\ RaiseUncaught("FileNotFoundError")
            /\ UNCHANGED retval
       ELSE /\ retval' = Canonical(Val(py_executable), fs)
            /\ pc' = "done"
            /\ outcome' = "return"
            /\ UNCHANGED <<err_source, err_message>>
    /\ UNCHANGED <<fs, removed, envvars, loadvars, python_version, localvars,
                   log, warnings>>

\* ----------------------------------------------------------- environment
\* Another process deletes an entry while an operation runs.
FsRemove ==
    /\ pc \notin {"loaded", "done"}
    /\ removed < MaxRemovals
    /\ \E p \in Removable :
         /\ fs[p] # "none"
         /\ fs' = [fs EXCEPT ![p] = "none"]
    /\ removed' = removed + 1
    /\ UNCHANGED <<pc, envvars, loadvars, callvars, log, outcome,
                   err_message>>

\* ------------------------------------------------------- DEFAULT_PYTHON
\* `if not env_default_python`: the override is used when it is set and not
\* empty.
UseOverride(env) == ~Falsy(env)

\* NeedsWindowsProbe with the test of the platform lost.
NeedsWindowsProbe_anyplatform(windows, venv) == ~venv

\* The default is probed for on Windows when venv cannot be imported.
NeedsWindowsProbe(windows, venv) == windows /\ ~venv

\* `"WindowsApps" in python`
HasStoreMarker(p) == Contains("WindowsApps", p)

\* StubRejected with the test of the output lost.
StubRejected_codeonly(returncode, stdout) == returncode # 0

\* The two tests on the finished `-V` process.
StubRejected(returncode, stdout) == returncode # 0 \/ strip(stdout) = ""

\* AbsolutePythonInterpreter with the result canonicalized.
AbsolutePythonInterpreter_canon(env_python, f) ==
    IF which(env_python, f) = None THEN None
    ELSE realpath(Val(which(env_python, f)), f)

\* which_python of _get_absolute_python_interpreter.
AbsolutePythonInterpreter(env_python, f) == which(env_python, f)

\* _get_absolute_python_interpreter(env_default_python)
GetAbsolutePythonInterpreter ==
    /\ pc = "import"
    /\ UseOverride(env_default_python)
    /\ log' = Append(log, Lookup(Val(env_default_python),
                                 which(Val(env_default_python), fs)))
    /\ IF Falsy(AbsolutePythonInterpreter(Val(env_default_python), fs))
       THEN /\ RaisePipxError("Default python interpreter '"
                              \o Val(env_default_python) \o "' is invalid.")
            /\ UNCHANGED DEFAULT_PYTHON
       ELSE /\ DEFAULT_PYTHON' =
                 AbsolutePythonInterpreter(Val(env_default_python), fs)
            /\ pc' = "loaded"
            /\ outcome' = "loaded"
            /\ UNCHANGED <<err_source, err_message>>
    /\ UNCHANGED <<fs, removed, envvars, python, callvars>>

\* _get_sys_executable() where it returns sys.executable: not on Windows,
\* or on Windows with venv importable.
GetSysExecutable ==
    /\ pc = "import"
    /\ ~UseOverride(env_default_python)
    /\ ~NeedsWindowsProbe(WINDOWS, venv_importable)
    /\ DEFAULT_PYTHON' = Some(sys_executable)
    /\ pc' = "loaded"
    /\ outcome' = "loaded"
    /\ UNCHANGED <<fs, removed, envvars, python, callvars, log, err_message>>

\* _find_default_windows_python() up to its spawn.
FindDefaultWindowsPython ==
    /\ pc = "import"
    /\ ~UseOverride(env_default_python)
    /\ NeedsWindowsProbe(WINDOWS, venv_importable)
    /\ py' = which("py", fs)
    /\ ~LauncherIsRun(py', None)
    /\ python' = IF Falsy(py') THEN which("python", fs) ELSE py'
    /\ log' = IF Falsy(py')
              THEN log \o <<Lookup("py", py'), Lookup("python", python')>>
              ELSE Append(log, Lookup("py", py'))
    /\ IF python' = None
       THEN /\ RaisePipxError("No suitable Python found")
            /\ UNCHANGED DEFAULT_PYTHON
       ELSE IF ~HasStoreMarker(Val(python'))
       THEN /\ DEFAULT_PYTHON' = python'
            /\ pc' = "loaded"
            /\ outcome' = "loaded"
            /\ UNCHANGED <<err_source, err_message>>
       ELSE /\ pc' = "version_query"
            /\ UNCHANGED <<DEFAULT_PYTHON, outcome, err_source, err_message>>
    /\ UNCHANGED <<fs, removed, envvars, python_version, py_executable,
                   path_python, warnings, retval>>

\* The `-V` spawn of _find_default_windows_python and the tests after it.
VersionQuery ==
    /\ pc = "version_query"
    /\ \E r \in RunOutcomes(Val(python), VersionReports, fs) :
         /\ log' = Append(log, Spawn(<<Val(python), "-V">>, r))
         /\ IF r.kind # "exit"
            THEN /\ RaiseUncaught(r.kind)
                 /\ UNCHANGED DEFAULT_PYTHON
            ELSE IF StubRejected(r.code, r.stdout)
            THEN /\ RaisePipxError("No suitable Python found")
                 /\ UNCHANGED DEFAULT_PYTHON
            ELSE /\ DEFAULT_PYTHON' = python
                 /\ pc' = "loaded"
                 /\ outcome' = "loaded"
                 /\ UNCHANGED <<err_source, err_message>>
    /\ UNCHANGED <<fs, removed, envvars, python, callvars>>

\* -------------------------------------------------------- specifications
InitLocals ==
    /\ removed = 0
    /\ python = None
    /\ python_version = ""
    /\ py = None
    /\ py_executable = None
    /\ path_python = None
    /\ log = <<>>
    /\ warnings = 0
    /\ outcome = "none"
    /\ err_source = ""
    /\ err_message = ""
    /\ retval = None

\* The import of the module: DEFAULT_PYTHON is about to be computed.
InitLoad ==
    /\ fs \in Layouts
    /\ env_default_python \in EnvValues
    /\ WINDOWS \in BOOLEAN
    /\ venv_importable \in BOOLEAN
    /\ sys_executable \in SysExecutables
    /\ DEFAULT_PYTHON = None
    /\ pc = "import"
    /\ InitLocals

NextLoad ==
    \/ GetAbsolutePythonInterpreter
    \/ GetSysExecutable
    \/ FindDefaultWindowsPython
    \/ VersionQuery
    \/ FsRemove

LoadSpec == InitLoad /\ [][NextLoad]_vars

\* The module is imported: find_python_interpreter can be called.
Init ==
    /\ fs \in Layouts
    /\ env_default_python = None
    /\ WINDOWS = FALSE
    /\ venv_importable = TRUE
    /\ sys_executable \in SysExecutables
    /\ DEFAULT_PYTHON = Some(sys_executable)
    /\ pc = "loaded"
    /\ InitLocals

Next ==
    \/ Call
    \/ LauncherWhich
    \/ LauncherRun
    \/ PathWhich
    \/ PathCanon
    \/ PathRun
    \/ FinalCanon
    \/ FsRemove

Spec == Init /\ [][Next]_vars

\* ---------------------------------------------------------------- claims
\* C1: a version that neither the launcher nor the search path resolves
\* ends find_python_interpreter in an InterpreterResolutionError: with
\* source "PATH" when no launcher is on the search path and the lookup of
\* the version finds nothing or the found candidate cannot be spawned or
\* exits non-zero, with source "py launcher" when the launcher is present
\* and its invocation fails (spawn failure or non-zero exit).
C1_Claim ==
    (pc = "done" /\ Len(log) >= 2) =>
        LET last == log[Len(log)]
            launcherAbsent == log[1].stdout = ""
            failedRun == last.op = "run"
                         /\ ~(last.kind = "exit" /\ last.code = 0)
        IN /\ (launcherAbsent /\ last.op = "which" /\ last.stdout = "")
                => (outcome = "InterpreterResolutionError"
                    /\ err_source = "PATH")
           /\ (launcherAbsent /\ failedRun)
                => (outcome = "InterpreterResolutionError"
                    /\ err_source = "PATH")
           /\ (~launcherAbsent /\ Len(log) = 2 /\ failedRun)
                => (outcome = "InterpreterResolutionError"
                    /\ err_source = "py launcher")

\* C2: whenever find_python_interpreter returns, the returned string is not
\* empty and names an existing executable file.
C2_Claim ==
    (pc = "done" /\ outcome = "return") =>
        (Val(retval) # "" /\ access_check(Val(retval), fs))

\* C3 (as stated): when the candidate found by the search-path lookup is a
\* symbolic link, the value returned equals that found path.
C3_Claim ==
    \A i \in 2..Len(log) :
        (/\ pc = "done" /\ outcome = "return"
         /\ log[i].op = "which" /\ log[i].stdout # ""
         /\ islink(log[i].stdout, fs))
        => Val(retval) = log[i].stdout

\* C3 (amended): when the candidate found by the search-path lookup is a
\* symbolic link, the candidate is spawned under that found path exactly,
\* and the value returned equals the found path whenever the candidate
\* reports that path.
C3_Amended ==
    \A i \in 2..Len(log) :
        (log[i].op = "which" /\ log[i].stdout # ""
         /\ islink(log[i].stdout, fs))
        => /\ Len(log) > i => log[i + 1].argv[1] = log[i].stdout
           /\ (pc = "done" /\ outcome = "return"
               /\ Val(py_executable) = log[i].stdout)
                => Val(retval) = log[i].stdout

C3_Witness ==
    /\ pc = "done" /\ outcome = "return"
    /\ Len(log) = 3
    /\ log[2].op = "which" /\ islink(log[2].stdout, fs)
    /\ log[3].argv[1] = log[2].stdout
    /\ Val(retval) = log[2].stdout

\* C4: when the path a probe produced is not a symbolic link, the return
\* statement returns the canonical resolution of that path, and raises
\* instead of returning when the canonical target does not exist.
C4_Theorem ==
    [][(pc = "final" /\ pc' # "final" /\ ~islink(Val(py_executable), fs))
        => IF realpath(Val(py_executable), fs) = None
           THEN pc' = "done" /\ outcome' # "return" /\ retval' = retval
           ELSE /\ pc' = "done" /\ outcome' = "return"
                /\ retval' = realpath(Val(py_executable), fs)]_vars

C4_Witness ==
    /\ pc = "done" /\ outcome = "return"
    /\ ~islink(Val(py_executable), fs)
    /\ retval = realpath(Val(py_executable), fs)
    /\ Val(retval) # Val(py_executable)

\* C5: every failure of find_python_interpreter is an
\* InterpreterResolutionError with source "py launcher" or "PATH".
C5_Claim ==
    (pc = "done" /\ outcome # "return") =>
        (outcome = "InterpreterResolutionError"
         /\ err_source \in {"py launcher", "PATH"})

\* C6: on Windows without venv, a default candidate whose path contains
\* "WindowsApps" and whose -V query exits non-zero or prints only
\* whitespace ends in PipxError("No suitable Python found") and is not
\* returned; a candidate without the marker is returned without any spawn.
C6_Theorem ==
    (WINDOWS /\ ~venv_importable /\ python # None /\ pc # "import") =>
        IF Contains("WindowsApps", Val(python))
        THEN (/\ pc \in {"loaded", "done"}
              /\ log[Len(log)].op = "run"
              /\ log[Len(log)].kind = "exit"
              /\ (log[Len(log)].code # 0
                  \/ strip(log[Len(log)].stdout) = ""))
             => (/\ outcome = "PipxError"
                 /\ err_message = "No suitable Python found"
                 /\ DEFAULT_PYTHON = None)
        ELSE /\ pc = "loaded"
             /\ DEFAULT_PYTHON = python
             /\ \A i \in 1..Len(log) : log[i].op # "run"

C6_Witness ==
    /\ WINDOWS /\ ~venv_importable /\ python # None
    /\ Contains("WindowsApps", Val(python))
    /\ pc = "done" /\ outcome = "PipxError"
    /\ log[Len(log)].op = "run"
    /\ log[Len(log)].code = 0
    /\ log[Len(log)].stdout = " \r\n"

\* C7: with PIPX_DEFAULT_PYTHON unset and not on Windows, DEFAULT_PYTHON is
\* sys.executable, computed without any spawn and without any lookup.
C7_Theorem ==
    (env_default_python = None /\ ~WINDOWS /\ pc # "import") =>
        (pc = "loaded" /\ DEFAULT_PYTHON = Some(sys_executable)
         /\ log = <<>>)

C7_Witness ==
    /\ env_default_python = None /\ ~WINDOWS /\ ~venv_importable
    /\ pc = "loaded" /\ DEFAULT_PYTHON = Some(sys_executable)

C9_Claim ==
    LET n == Len(log)
        IsLauncherRun(e) == e.op = "run" /\ Len(e.argv) = 4
        IsPathRun(e) == e.op = "run" /\ Len(e.argv) = 3
        Failed(e) == ~(e.kind = "exit" /\ e.code = 0)
    IN /\ n >= 1 => (log[1].op = "which" /\ log[1].argv = <<"py">>)
       /\ \A i \in 2..n :
            (log[i].op = "which" \/ IsPathRun(log[i]))
                => log[1].stdout = ""
       /\ \A i \in 2..n :
            IsPathRun(log[i])
                => (log[i - 1].op = "which"
                    /\ log[i - 1].argv = <<python_version>>)
       /\ \A i \in 1..n :
            (IsLauncherRun(log[i]) /\ Failed(log[i]))
                => (/\ i = n /\ pc = "done"
                    /\ outcome = "InterpreterResolutionError"
                    /\ err_source = "py launcher")
       /\ \A i, j \in 1..n :
            (i < j /\ log[i].op = log[j].op)
                => \/ (log[i].op = "which" /\ i = 1)
                   \/ (IsLauncherRun(log[i]) /\ IsPathRun(log[j]))
       /\ Cardinality({i \in 2..n : log[i].op = "which"}) <= 1

\* C10: the flag passed to the launcher is "-" followed by the version with
\* one leading "python" removed (the rest unchanged) when the version
\* starts with "python", and by the version unchanged otherwise; the
\* warning is logged exactly when the prefix is removed.
C10_Claim ==
    \A i \in 1..Len(log) :
        (log[i].op = "run" /\ Len(log[i].argv) = 4) =>
            /\ log[i].argv[2] =
                 "-" \o (IF startswith(python_version, "python")
                         THEN SubSeq(python_version, 7, Len(python_version))
                         ELSE python_version)
            /\ warnings = (IF startswith(python_version, "python")
                           THEN 1 ELSE 0)

====
